---------------------------- MODULE Spec2Model ----------------------------
(***************************************************************************)
(* The client-events batch pipeline: the staging stage (schema cast,       *)
(* defaults, ranking), and the funnel, churn and inconsistency aggregators *)
(* that read the staged table.  Tables are sequences of rows; a row is a   *)
(* record keyed by column name.  SQL NULL / pandas NaN / NaT is NULL for   *)
(* numeric and date columns and NULLS for text columns.                    *)
(***************************************************************************)
EXTENDS Integers, Sequences, FiniteSets, TLC

VARIABLES pc, raw, df, staging_df, funnel_df, metrics, churn_df, results, findings,
          stage, step, status, conn, exits, ran, exc, reraised

(* the tables of a run *)
datavars == <<pc, raw, df, staging_df, funnel_df, metrics, churn_df, results, findings>>

(* the position of the process_* method that is running, each processor's
   self.conn, how each process_* call ended, the exception a step raised and
   the exception the caller received *)
procvars == <<stage, step, status, conn, exits, ran, exc, reraised>>

vars == <<pc, raw, df, staging_df, funnel_df, metrics, churn_df, results, findings,
          stage, step, status, conn, exits, ran, exc, reraised>>

---------------------------------------------------------------------------
(* Bounds of the model *)

MaxRows == 2
MaxFunnelRows == 2
MaxNormRows == 1
MaxRuleRows == 3
MaxCheckRows == 2

---------------------------------------------------------------------------
(* Values *)

NULL == -9
BAD == -8
NULLS == "<null>"

(* a numeric cell that holds a number with a fractional part, w + 1/2, is
   held as Fraction + w; every whole number of the model is below Fraction *)
Fraction == 1000

SalesRepSentinel == -1
InactiveDays == 60

KnownTypes == {"applied", "docs_submitted", "rejected", "signed", "churned"}
EventTypes == KnownTypes \cup {"other"}
Dates == {1, 2}
Clients == {1, 2}

RawColumns == {"record_id", "client_id", "event_type", "event_date", "plan",
               "region", "marketing_channel", "sales_rep_id", "source_system"}

(* pandas' default NA strings that a plan, region or channel cell can hold *)
NaStrings == {"", "NA", "N/A", "NULL", "NaN", "None", "n/a", "nan", "null"}

---------------------------------------------------------------------------
(* Generic helpers over sequences and sets *)

Range(s) == {s[i] : i \in DOMAIN s}

RECURSIVE SeqOfSet(_)
(* the elements of a finite set of integers in ascending order (NULL first) *)
SeqOfSet(S) ==
    IF S = {} THEN <<>>
    ELSE LET m == CHOOSE x \in S : \A y \in S : x <= y
         IN <<m>> \o SeqOfSet(S \ {m})

RECURSIVE Flatten(_)
Flatten(ss) == IF ss = <<>> THEN <<>> ELSE Head(ss) \o Flatten(Tail(ss))


Table(cols, rows) == [cols |-> cols, rows |-> rows]
EmptyTable == Table({}, <<>>)

---------------------------------------------------------------------------
(* Staging: StagingEventsProcessor *)

(* pd.to_datetime / pd.to_numeric with errors='coerce': a cell that does not
   parse becomes NaT / NaN, a blank stays missing, a value is kept *)
Coerce(v) == IF v = BAD THEN NULL ELSE v

(* Title with the .str.title() call left out *)
TitleAsIdentity(s) == s

(* str.title() on the plan strings of the model *)
Title(s) ==
    CASE s = "unknown" -> "Unknown"
      [] s = "basic"   -> "Basic"
      [] s = "PRO"     -> "Pro"
      [] s = "none"    -> "None"
      [] OTHER         -> s

(* FillNa with the fillna call left out *)
FillNaAsKeep(v, null, default) == v

(* Series.fillna(default) on one cell *)
FillNa(v, null, default) == IF v = null THEN default ELSE v

(* .astype(int) on a float cell: the fractional part is cut off *)
AsInt(v) == IF v >= Fraction THEN v - Fraction ELSE v

CastRow(r) ==
    [r EXCEPT !.event_date   = Coerce(r.event_date),
              !.record_id    = Coerce(r.record_id),
              !.client_id    = Coerce(r.client_id),
              !.sales_rep_id = Coerce(r.sales_rep_id)]

(* FillRow that also gives a missing region the default *)
FillRowAsRegionFilled(r) ==
    [r EXCEPT !.plan              = Title(FillNa(r.plan, NULLS, "unknown")),
              !.region            = FillNa(r.region, NULLS, "unknown"),
              !.source_system     = FillNa(r.source_system, NULLS, "unknown"),
              !.marketing_channel = FillNa(r.marketing_channel, NULLS, "unknown"),
              !.sales_rep_id      = AsInt(FillNa(r.sales_rep_id, NULL, SalesRepSentinel))]

(* FillRow without the default for source_system *)
FillRowAsNoSourceFill(r) ==
    [r EXCEPT !.plan              = Title(FillNa(r.plan, NULLS, "unknown")),
              !.marketing_channel = FillNa(r.marketing_channel, NULLS, "unknown"),
              !.sales_rep_id      = AsInt(FillNa(r.sales_rep_id, NULL, SalesRepSentinel))]

FillRow(r) ==
    [r EXCEPT !.plan              = Title(FillNa(r.plan, NULLS, "unknown")),
              !.source_system     = FillNa(r.source_system, NULLS, "unknown"),
              !.marketing_channel = FillNa(r.marketing_channel, NULLS, "unknown"),
              !.sales_rep_id      = AsInt(FillNa(r.sales_rep_id, NULL, SalesRepSentinel))]

(* HasDate with the WHERE clause left out *)
HasDateAsAlways(r) == TRUE

(* WHERE event_date IS NOT NULL *)
HasDate(r) == r.event_date # NULL

(* PARTITION BY client_id, event_type: NULL keys form one partition *)
SamePartition(a, b) == a.client_id = b.client_id /\ a.event_type = b.event_type

(* SortsBefore with the ORDER BY clause left out: only the sorter's order *)
SortsBeforeAsUnordered(t, j, i, tb) == tb[j] < tb[i]

(* SortsBefore with ORDER BY event_date DESC *)
SortsBeforeAsDescending(t, j, i, tb) ==
    \/ t[j].event_date > t[i].event_date
    \/ t[j].event_date = t[i].event_date /\ tb[j] < tb[i]

(* ORDER BY event_date inside a partition; rows with the same date are in
   the order the sorter leaves them, tb, which SQL does not specify *)
SortsBefore(t, j, i, tb) ==
    \/ t[j].event_date < t[i].event_date
    \/ t[j].event_date = t[i].event_date /\ tb[j] < tb[i]

(* RowNumber with RANK() in place of ROW_NUMBER(): rows of equal date share a rank *)
RowNumberAsRank(t, i, tb) ==
    1 + Cardinality({j \in DOMAIN t : /\ SamePartition(t[j], t[i])
                                      /\ t[j].event_date < t[i].event_date})

(* ROW_NUMBER(): the position of row i among the sorted rows of its partition *)
RowNumber(t, i, tb) ==
    1 + Cardinality({j \in DOMAIN t : /\ SamePartition(t[j], t[i])
                                      /\ SortsBefore(t, j, i, tb)})

WithRank(r, k) ==
    [c \in DOMAIN r \cup {"event_rank"} |-> IF c = "event_rank" THEN k ELSE r[c]]

StagingColumns == RawColumns \cup {"event_rank"}

StagingQuery(t, tb) ==
    LET kept == SelectSeq(t, HasDate)
    IN  Table(StagingColumns,
              [i \in DOMAIN kept |-> WithRank(kept[i], RowNumber(kept, i, tb))])

(* pd.read_csv of an exported table: a text cell holding one of pandas'
   NA strings is read back as missing *)
ReadCsvText(s) == IF s \in NaStrings THEN NULLS ELSE s

TextColumns == {"event_type", "plan", "region", "marketing_channel", "source_system"}

ReadCsvRow(r) == [c \in DOMAIN r |-> IF c \in TextColumns THEN ReadCsvText(r[c]) ELSE r[c]]

(* load_staging_data of each aggregator: the staged table as exported by
   export_to_csv and read back *)
load_staging_data == [i \in DOMAIN staging_df.rows |-> ReadCsvRow(staging_df.rows[i])]

---------------------------------------------------------------------------
(* SQL aggregates over the rows of one group; NULL inputs are skipped *)

Min(S) == IF S = {} THEN NULL ELSE CHOOSE x \in S : \A y \in S : x <= y
Max(S) == IF S = {} THEN NULL ELSE CHOOSE x \in S : \A y \in S : x >= y

(* the rows of table t in the GROUP BY client_id group of c (NULL is a group) *)
Group(t, c) == {i \in DOMAIN t : t[i].client_id = c}

(* GroupKeys without the grouping: one key per row *)
GroupKeysAsPerRow(t) == [i \in DOMAIN t |-> t[i].client_id]

GroupKeys(t) == SeqOfSet({t[i].client_id : i \in DOMAIN t})

(* {event_date of the group's rows of one event type}: CASE WHEN event_type = ty *)
DatesOf(t, g, ty) == {t[i].event_date : i \in {j \in g : t[j].event_type = ty}}

(* COUNT(CASE WHEN event_type = ty THEN 1 END) *)
CountOf(t, g, ty) == Cardinality({j \in g : t[j].event_type = ty})

---------------------------------------------------------------------------
(* Funnel: FunnelDataProcessor *)

FunnelColumns == {"client_id", "applied_date", "docs_submitted_date",
                  "rejected_date", "signed_date", "churned_date"}

(* IsRankOne that also asks for one of the funnel's event types *)
IsRankOneAsKnownType(r) == r.event_rank = 1 /\ r.event_type \in KnownTypes

(* WHERE event_rank = 1 *)
IsRankOne(r) == r.event_rank = 1

(* FunnelRow whose churned_date is read from the rejected events *)
FunnelRowAsChurnedFromRejected(t, c) ==
    LET g == Group(t, c)
    IN  [client_id           |-> c,
         applied_date        |-> Min(DatesOf(t, g, "applied")),
         docs_submitted_date |-> Min(DatesOf(t, g, "docs_submitted")),
         rejected_date       |-> Min(DatesOf(t, g, "rejected")),
         signed_date         |-> Min(DatesOf(t, g, "signed")),
         churned_date        |-> Min(DatesOf(t, g, "rejected"))]

FunnelRow(t, c) ==
    LET g == Group(t, c)
    IN  [client_id           |-> c,
         applied_date        |-> Min(DatesOf(t, g, "applied")),
         docs_submitted_date |-> Min(DatesOf(t, g, "docs_submitted")),
         rejected_date       |-> Min(DatesOf(t, g, "rejected")),
         signed_date         |-> Min(DatesOf(t, g, "signed")),
         churned_date        |-> Min(DatesOf(t, g, "churned"))]

FunnelQuery(t) ==
    LET first == SelectSeq(t, IsRankOne)
        keys  == GroupKeys(first)
    IN  Table(FunnelColumns, [k \in DOMAIN keys |-> FunnelRow(first, keys[k])])

(* funnel_df[col].notna().sum() *)
NotNaCount(rows, col) == Cardinality({i \in DOMAIN rows : rows[i][col] # NULL})

(* Rate without the guard on the denominator *)
RateAsUnguarded(a, b) == [num |-> a, den |-> b]

(* a / b if b > 0 else 0, kept as an exact fraction *)
Rate(a, b) == IF b > 0 THEN [num |-> a, den |-> b] ELSE [num |-> 0, den |-> 1]

(* ActiveClients without the guard *)
ActiveClientsAsDifference(signed, churned) == signed - churned

(* signed - churned if signed >= churned else 0 *)
ActiveClients(signed, churned) == IF signed >= churned THEN signed - churned ELSE 0

FunnelMetrics(rows) ==
    LET total     == Len(rows)
        applied   == NotNaCount(rows, "applied_date")
        docs      == NotNaCount(rows, "docs_submitted_date")
        rejected  == NotNaCount(rows, "rejected_date")
        signed    == NotNaCount(rows, "signed_date")
        churned   == NotNaCount(rows, "churned_date")
    IN  [total_clients          |-> total,
         applied_clients        |-> applied,
         docs_submitted_clients |-> docs,
         rejected_clients       |-> rejected,
         signed_clients         |-> signed,
         churned_clients        |-> churned,
         application_rate       |-> Rate(applied, total),
         docs_submission_rate   |-> Rate(docs, applied),
         rejection_rate         |-> Rate(rejected, applied),
         conversion_rate        |-> Rate(signed, applied),
         churn_rate             |-> Rate(churned, signed),
         active_clients         |-> ActiveClients(signed, churned)]

NoMetrics == [total_clients |-> NULL]

---------------------------------------------------------------------------
(* Churn: ChurnDataProcessor *)

ChurnColumns == {"client_id", "last_event_date", "applied_date", "signed_date",
                 "churned_date", "last_event_type", "is_churned",
                 "days_since_last_event", "days_since_signed"}

AllDates(t, g) == {t[i].event_date : i \in g}

(* LastEvents with MIN in place of MAX *)
LastEventsAsEarliest(t, c) ==
    LET g == Group(t, c)
    IN  [client_id       |-> c,
         last_event_date |-> Min(AllDates(t, g)),
         applied_date    |-> Min(DatesOf(t, g, "applied")),
         signed_date     |-> Min(DatesOf(t, g, "signed")),
         churned_date    |-> Min(DatesOf(t, g, "churned"))]

(* the last_events CTE: one row per client_id group *)
LastEvents(t, c) ==
    LET g == Group(t, c)
    IN  [client_id       |-> c,
         last_event_date |-> Max(AllDates(t, g)),
         applied_date    |-> Max(DatesOf(t, g, "applied")),
         signed_date     |-> Max(DatesOf(t, g, "signed")),
         churned_date    |-> Max(DatesOf(t, g, "churned"))]

(* the ON clause of the LEFT JOIN; a NULL client_id equals nothing *)
JoinsLast(le, se) ==
    /\ le.client_id # NULL /\ se.client_id # NULL
    /\ le.client_id = se.client_id
    /\ le.last_event_date = se.event_date
    /\ se.event_rank = 1

(* julianday('now') - julianday(d) *)
DaysSince(now, d) == IF d = NULL THEN NULL ELSE now - d

(* ChurnRow whose is_churned asks whether the last event is a churned one *)
ChurnRowAsLastIsChurned(le, ty, now) ==
    [client_id             |-> le.client_id,
     last_event_date       |-> le.last_event_date,
     applied_date          |-> le.applied_date,
     signed_date           |-> le.signed_date,
     churned_date          |-> le.churned_date,
     last_event_type       |-> ty,
     is_churned            |-> IF ty = "churned" THEN 1 ELSE 0,
     days_since_last_event |-> DaysSince(now, le.last_event_date),
     days_since_signed     |-> DaysSince(now, le.signed_date)]

ChurnRow(le, ty, now) ==
    [client_id             |-> le.client_id,
     last_event_date       |-> le.last_event_date,
     applied_date          |-> le.applied_date,
     signed_date           |-> le.signed_date,
     churned_date          |-> le.churned_date,
     last_event_type       |-> ty,
     is_churned            |-> IF le.churned_date # NULL THEN 1 ELSE 0,
     days_since_last_event |-> DaysSince(now, le.last_event_date),
     days_since_signed     |-> DaysSince(now, le.signed_date)]

(* last_event_details: every staged row the join matches gives a row; a
   client the join matches nothing for gives one row with a NULL type *)
LastEventDetails(t, le, now) ==
    LET hit(r) == JoinsLast(le, r)
        hits   == SelectSeq(t, hit)
    IN  IF hits = <<>> THEN <<ChurnRow(le, NULLS, now)>>
        ELSE [k \in DOMAIN hits |-> ChurnRow(le, hits[k].event_type, now)]

ChurnQuery(t, now) ==
    LET keys == GroupKeys(t)
    IN  Table(ChurnColumns,
              Flatten([k \in DOMAIN keys |-> LastEventDetails(t, LastEvents(t, keys[k]), now)]))

---------------------------------------------------------------------------
(* Inconsistencies: InconsistenciesProcessor *)

(* a two-column sort key compared column by column *)
KeyLess(x, y) == x[1] < y[1] \/ (x[1] = y[1] /\ x[2] < y[2])

(* ORDER BY: the rows of t sorted by keys (keys[i] is the key of row i); rows
   of equal key keep their relative order *)
SortByKey(t, keys) ==
    LET pos(i) == 1 + Cardinality({j \in DOMAIN t :
                        \/ KeyLess(keys[j], keys[i])
                        \/ keys[j] = keys[i] /\ j < i})
    IN  [p \in DOMAIN t |-> t[CHOOSE i \in DOMAIN t : pos(i) = p]]

(* a comparison with NULL is not true *)
DateBefore(a, b) == a # NULL /\ b # NULL /\ a < b

Q3Columns == {"client_id", "inconsistency_type", "description", "relevant_date",
              "signed_count", "churned_count"}

(* analyze_churned_without_signed without the signed_count = 0 condition *)
analyze_churned_without_signedAsAnyChurned(t) ==
    LET row(c)  == [client_id          |-> c,
                    inconsistency_type |-> "Q3_churned_without_signed",
                    description        |-> "Client churned without ever signing",
                    relevant_date      |-> Min(DatesOf(t, Group(t, c), "churned")),
                    signed_count       |-> CountOf(t, Group(t, c), "signed"),
                    churned_count      |-> CountOf(t, Group(t, c), "churned")]
        keys     == GroupKeys(t)
        cte      == [k \in DOMAIN keys |-> row(keys[k])]
        where(r) == r.churned_count > 0
    IN  Table(Q3Columns, SelectSeq(cte, where))

analyze_churned_without_signed(t) ==
    LET row(c)  == [client_id          |-> c,
                    inconsistency_type |-> "Q3_churned_without_signed",
                    description        |-> "Client churned without ever signing",
                    relevant_date      |-> Min(DatesOf(t, Group(t, c), "churned")),
                    signed_count       |-> CountOf(t, Group(t, c), "signed"),
                    churned_count      |-> CountOf(t, Group(t, c), "churned")]
        keys     == GroupKeys(t)
        cte      == [k \in DOMAIN keys |-> row(keys[k])]
        where(r) == r.churned_count > 0 /\ r.signed_count = 0
    IN  Table(Q3Columns, SelectSeq(cte, where))

Q6Columns == {"client_id", "inconsistency_type", "description", "relevant_date",
              "days_inactive", "signed_count"}

analyze_long_inactive_unsigned(t, now) ==
    LET last(c) == Max(AllDates(t, Group(t, c)))
        row(c)  == [client_id          |-> c,
                    inconsistency_type |-> "Q6_long_inactive_unsigned",
                    description        |-> "Unsigned client with long inactivity (>60 days) - potential at-risk",
                    relevant_date      |-> last(c),
                    days_inactive      |-> DaysSince(now, last(c)),
                    signed_count       |-> CountOf(t, Group(t, c), "signed")]
        keys     == GroupKeys(t)
        cte      == [k \in DOMAIN keys |-> row(keys[k])]
        where(r) == r.signed_count = 0 /\ r.days_inactive > InactiveDays
    IN  Table(Q6Columns, SelectSeq(cte, where))

Q2Columns == {"client_id", "inconsistency_type", "description", "relevant_date",
              "applied_count", "signed_count"}

(* analyze_signed_without_applied without the applied_count = 0 condition *)
analyze_signed_without_appliedAsAnySigned(t) ==
    LET row(c)  == [client_id          |-> c,
                    inconsistency_type |-> "Q2_signed_without_applied",
                    description        |-> "Client signed without applying first",
                    relevant_date      |-> Min(DatesOf(t, Group(t, c), "signed")),
                    applied_count      |-> CountOf(t, Group(t, c), "applied"),
                    signed_count       |-> CountOf(t, Group(t, c), "signed")]
        keys     == GroupKeys(t)
        cte      == [k \in DOMAIN keys |-> row(keys[k])]
        where(r) == r.signed_count > 0
    IN  Table(Q2Columns, SelectSeq(cte, where))

analyze_signed_without_applied(t) ==
    LET row(c)  == [client_id          |-> c,
                    inconsistency_type |-> "Q2_signed_without_applied",
                    description        |-> "Client signed without applying first",
                    relevant_date      |-> Min(DatesOf(t, Group(t, c), "signed")),
                    applied_count      |-> CountOf(t, Group(t, c), "applied"),
                    signed_count       |-> CountOf(t, Group(t, c), "signed")]
        keys     == GroupKeys(t)
        cte      == [k \in DOMAIN keys |-> row(keys[k])]
        where(r) == r.signed_count > 0 /\ r.applied_count = 0
    IN  Table(Q2Columns, SelectSeq(cte, where))

Q1Columns == {"client_id", "inconsistency_type", "description", "relevant_date",
              "application_count", "date_range_days"}

(* multiple_apps_query: the client_id groups with more than one applied row *)
MultipleAppsClients(t) ==
    {c \in Range(GroupKeys(t)) : CountOf(t, Group(t, c), "applied") > 1}

(* ','.join(map(str, client_ids)) writes a missing client_id as the bare word
   nan (or None) into the IN list of detail_query, which SQLite rejects *)
MultipleAppsRaises(t) == NULL \in MultipleAppsClients(t)

analyze_multiple_applications(t) ==
    LET row(c)  == [client_id          |-> c,
                    inconsistency_type |-> "Q1_multiple_applications",
                    description        |-> "Client has multiple application events",
                    relevant_date      |-> Min(DatesOf(t, Group(t, c), "applied")),
                    application_count  |-> CountOf(t, Group(t, c), "applied"),
                    date_range_days    |-> Max(DatesOf(t, Group(t, c), "applied"))
                                             - Min(DatesOf(t, Group(t, c), "applied"))]
        keys     == GroupKeys(t)
        cte      == [k \in DOMAIN keys |-> row(keys[k])]
        where(r) == r.client_id \in MultipleAppsClients(t)
    IN  Table(Q1Columns, SelectSeq(cte, where))

UnknownColumns == {"client_id", "record_id", "event_type", "event_date",
                   "inconsistency_type", "description", "plan", "sales_rep_id",
                   "region", "marketing_channel", "source_system"}

(* col IS NULL OR col = '' *)
Missing(v) == v = NULLS \/ v = ""

(* IsUnknownRow without the sales_rep_id = -1 condition *)
IsUnknownRowAsNoSalesRep(r) ==
    \/ r.plan = "Unknown"
    \/ Missing(r.region)
    \/ Missing(r.marketing_channel)
    \/ Missing(r.source_system)

(* the WHERE clause of analyze_unknown_values *)
IsUnknownRow(r) ==
    \/ r.plan = "Unknown"
    \/ r.sales_rep_id = SalesRepSentinel
    \/ Missing(r.region)
    \/ Missing(r.marketing_channel)
    \/ Missing(r.source_system)

UnknownDescription(r) ==
    CASE r.plan = "Unknown"                 -> "Plan field has Unknown value"
      [] r.sales_rep_id = SalesRepSentinel  -> "Sales rep ID is -1 (missing/unknown)"
      [] Missing(r.region)                  -> "Region field is missing"
      [] Missing(r.marketing_channel)       -> "Marketing channel is missing"
      [] Missing(r.source_system)           -> "Source system is missing"
      [] OTHER                              -> "Other unknown value detected"

UnknownRow(r) ==
    [client_id          |-> r.client_id,
     record_id          |-> r.record_id,
     event_type         |-> r.event_type,
     event_date         |-> r.event_date,
     inconsistency_type |-> "unknown_values",
     description        |-> UnknownDescription(r),
     plan               |-> r.plan,
     sales_rep_id       |-> r.sales_rep_id,
     region             |-> r.region,
     marketing_channel  |-> r.marketing_channel,
     source_system      |-> r.source_system]

(* ORDER BY client_id, event_date *)
ByClientThenDate(r) == <<r.client_id, r.event_date>>

analyze_unknown_values(t) ==
    LET hits == SelectSeq(t, IsUnknownRow)
        rows == [i \in DOMAIN hits |-> UnknownRow(hits[i])]
    IN  Table(UnknownColumns,
              SortByKey(rows, [i \in DOMAIN rows |-> ByClientThenDate(rows[i])]))

SequenceColumns == {"client_id", "inconsistency_type", "description", "violation_type",
                    "first_applied_date", "first_signed_date", "first_docs_date",
                    "first_rejected_date", "first_churned_date"}

(* ViolationType that looks at the docs_submitted date first *)
ViolationTypeAsDocsFirst(applied, signed, docs, rejected, churned) ==
    CASE DateBefore(docs, applied)     -> "docs_submitted_before_applied"
      [] DateBefore(signed, applied)   -> "signed_before_applied"
      [] DateBefore(rejected, applied) -> "rejected_before_applied"
      [] DateBefore(churned, signed)   -> "churned_before_signed"
      [] OTHER                         -> NULLS

(* the violations CTE: the first WHEN that is true, NULL when none is *)
ViolationType(applied, signed, docs, rejected, churned) ==
    CASE DateBefore(signed, applied)   -> "signed_before_applied"
      [] DateBefore(docs, applied)     -> "docs_submitted_before_applied"
      [] DateBefore(rejected, applied) -> "rejected_before_applied"
      [] DateBefore(churned, signed)   -> "churned_before_signed"
      [] OTHER                         -> NULLS

ViolationDescription(v) ==
    CASE v = "signed_before_applied"         -> "Client signed before applying"
      [] v = "docs_submitted_before_applied" -> "Client submitted docs before applying"
      [] v = "rejected_before_applied"       -> "Client was rejected before applying"
      [] v = "churned_before_signed"         -> "Client churned before signing"
      [] OTHER                               -> "Unknown sequence violation"

analyze_event_sequence_violations(t) ==
    LET first(c, ty) == Min(DatesOf(t, Group(t, c), ty))
        vtype(c) == ViolationType(first(c, "applied"), first(c, "signed"),
                                  first(c, "docs_submitted"), first(c, "rejected"),
                                  first(c, "churned"))
        row(c)  == [client_id           |-> c,
                    inconsistency_type  |-> "sequence_violation",
                    description         |-> ViolationDescription(vtype(c)),
                    violation_type      |-> vtype(c),
                    first_applied_date  |-> first(c, "applied"),
                    first_signed_date   |-> first(c, "signed"),
                    first_docs_date     |-> first(c, "docs_submitted"),
                    first_rejected_date |-> first(c, "rejected"),
                    first_churned_date  |-> first(c, "churned")]
        keys     == GroupKeys(t)
        cte      == [k \in DOMAIN keys |-> row(keys[k])]
        where(r) == r.violation_type # NULLS
    IN  Table(SequenceColumns, SelectSeq(cte, where))

DocsColumns == {"client_id", "inconsistency_type", "description", "applied_count",
                "docs_count", "signed_count", "rejected_count", "first_applied",
                "first_signed"}

(* DocsDescription whose first branch does not ask for docs_count = 0 *)
DocsDescriptionAsSignedFirst(applied, docs, signed, rejected) ==
    CASE applied > 0 /\ signed > 0
           -> "Applied and signed without docs submission"
      [] applied > 0 /\ docs = 0 /\ signed = 0 /\ rejected = 0
           -> "Applied but no docs submission (still pending?)"
      [] docs > 0 -> "Has docs submission event"
      [] OTHER    -> "Other pattern"

DocsDescription(applied, docs, signed, rejected) ==
    CASE applied > 0 /\ docs = 0 /\ signed > 0
           -> "Applied and signed without docs submission"
      [] applied > 0 /\ docs = 0 /\ signed = 0 /\ rejected = 0
           -> "Applied but no docs submission (still pending?)"
      [] docs > 0 -> "Has docs submission event"
      [] OTHER    -> "Other pattern"

(* ORDER BY CASE WHEN docs_count > 0 THEN 1 WHEN signed_count > 0 AND
   docs_count = 0 THEN 2 ELSE 3 END, client_id *)
DocsOrderKey(r) ==
    IF r.docs_count > 0 THEN 1
    ELSE IF r.signed_count > 0 /\ r.docs_count = 0 THEN 2 ELSE 3

ByDocsPattern(r) == <<DocsOrderKey(r), r.client_id>>

analyze_docs_submitted_pattern(t) ==
    LET n(c, ty) == CountOf(t, Group(t, c), ty)
        row(c)  == [client_id          |-> c,
                    inconsistency_type |-> "docs_submitted_analysis",
                    description        |-> DocsDescription(n(c, "applied"), n(c, "docs_submitted"),
                                                           n(c, "signed"), n(c, "rejected")),
                    applied_count      |-> n(c, "applied"),
                    docs_count         |-> n(c, "docs_submitted"),
                    signed_count       |-> n(c, "signed"),
                    rejected_count     |-> n(c, "rejected"),
                    first_applied      |-> Min(DatesOf(t, Group(t, c), "applied")),
                    first_signed       |-> Min(DatesOf(t, Group(t, c), "signed"))]
        keys     == GroupKeys(t)
        cte      == [k \in DOMAIN keys |-> row(keys[k])]
        where(r) == r.applied_count > 0
        rows     == SelectSeq(cte, where)
    IN  Table(DocsColumns, SortByKey(rows, [i \in DOMAIN rows |-> ByDocsPattern(rows[i])]))

PlanColumns == {"client_id", "inconsistency_type", "description", "unique_plans",
                "all_plans", "first_event", "last_event"}

(* DISTINCT plan over a group; a NULL plan is not counted *)
PlansOf(t, g) == {t[i].plan : i \in g} \ {NULLS}

(* ORDER BY unique_plans DESC, client_id *)
ByPlansDesc(r) == <<0 - r.unique_plans, r.client_id>>

analyze_plan_inconsistencies(t) ==
    LET row(c)  == [client_id          |-> c,
                    inconsistency_type |-> "plan_inconsistency",
                    description        |-> "Client has multiple different plans across events",
                    unique_plans       |-> Cardinality(PlansOf(t, Group(t, c))),
                    all_plans          |-> PlansOf(t, Group(t, c)),
                    first_event        |-> Min(AllDates(t, Group(t, c))),
                    last_event         |-> Max(AllDates(t, Group(t, c)))]
        keys     == GroupKeys(t)
        cte      == [k \in DOMAIN keys |-> row(keys[k])]
        where(r) == r.unique_plans > 1
        rows     == SelectSeq(cte, where)
    IN  Table(PlanColumns, SortByKey(rows, [i \in DOMAIN rows |-> ByPlansDesc(rows[i])]))

DistributionColumns == {"event_type", "event_count", "unique_clients", "earliest_date",
                        "latest_date", "avg_sales_rep_id", "plans_involved",
                        "regions_involved"}

(* the rows of table t in the GROUP BY event_type group of ty *)
TypeGroup(t, ty) == {i \in DOMAIN t : t[i].event_type = ty}

RECURSIVE SumOf(_, _)
(* SUM(sales_rep_id) over the rows g of t *)
SumOf(t, g) ==
    IF g = {} THEN 0
    ELSE LET i == CHOOSE j \in g : TRUE
         IN t[i].sales_rep_id + SumOf(t, g \ {i})

(* the position of an event type in the order of the GROUP BY (NULL first) *)
TypeIndex(ty) ==
    CASE ty = NULLS            -> 0
      [] ty = "applied"        -> 1
      [] ty = "churned"        -> 2
      [] ty = "docs_submitted" -> 3
      [] ty = "other"          -> 4
      [] ty = "rejected"       -> 5
      [] ty = "signed"         -> 6

(* ORDER BY event_count DESC; SQLite returns groups with equal counts in the
   reverse of their group order *)
ByCountDesc(r) == <<0 - r.event_count, 0 - TypeIndex(r.event_type)>>

(* AVG is held as the pair sum / count, the GROUP_CONCAT(DISTINCT ...) lists as
   the sets of their values *)
analyze_event_type_distribution(t) ==
    LET row(ty) == LET g == TypeGroup(t, ty)
                   IN  [event_type       |-> ty,
                        event_count      |-> Cardinality(g),
                        unique_clients   |-> Cardinality({t[i].client_id : i \in g} \ {NULL}),
                        earliest_date    |-> Min(AllDates(t, g)),
                        latest_date      |-> Max(AllDates(t, g)),
                        avg_sales_rep_id |-> [num |-> SumOf(t, g), den |-> Cardinality(g)],
                        plans_involved   |-> PlansOf(t, g),
                        regions_involved |-> {t[i].region : i \in g} \ {NULLS}]
        types == SeqOfSet({TypeIndex(t[i].event_type) : i \in DOMAIN t})
        rows  == [k \in DOMAIN types |->
                     row(CHOOSE ty \in {t[i].event_type : i \in DOMAIN t} :
                            TypeIndex(ty) = types[k])]
    IN  Table(DistributionColumns, SortByKey(rows, [i \in DOMAIN rows |-> ByCountDesc(rows[i])]))

(* the value pd.concat gives a column that a frame lacks *)
NaOf(col) ==
    IF col = "all_plans" THEN {}
    ELSE IF col \in TextColumns \cup {"inconsistency_type", "description",
                                      "violation_type"} THEN NULLS
    ELSE NULL

Reindex(r, cols) == [c \in cols |-> IF c \in DOMAIN r THEN r[c] ELSE NaOf(c)]

RECURSIVE UnionCols(_)
UnionCols(ts) == IF ts = <<>> THEN {} ELSE Head(ts).cols \cup UnionCols(Tail(ts))

(* pd.concat(frames, ignore_index=True, sort=False) *)
Concat(ts) ==
    LET cols == UnionCols(ts)
    IN  Table(cols, Flatten([k \in DOMAIN ts |->
                                [i \in DOMAIN ts[k].rows |-> Reindex(ts[k].rows[i], cols)]]))

(* if not df.empty *)
NotEmpty(t) == t.rows # <<>>

(* the rule-checks create_inconsistencies_summary runs before
   analyze_multiple_applications *)
ResultsBeforeQ1(t, now) ==
    [q3 |-> analyze_churned_without_signed(t),
     q6 |-> analyze_long_inactive_unsigned(t, now),
     q2 |-> analyze_signed_without_applied(t)]

(* every rule-check whose result goes into the findings table *)
AllResults(t, now) ==
    [q3       |-> analyze_churned_without_signed(t),
     q6       |-> analyze_long_inactive_unsigned(t, now),
     q2       |-> analyze_signed_without_applied(t),
     q1       |-> analyze_multiple_applications(t),
     unknown  |-> analyze_unknown_values(t),
     sequence |-> analyze_event_sequence_violations(t),
     docs     |-> analyze_docs_submitted_pattern(t),
     plan     |-> analyze_plan_inconsistencies(t)]

(* the combination step of create_inconsistencies_summary *)
Combine(r) ==
    LET all == SelectSeq(<<r.q3, r.q6, r.q2, r.q1, r.unknown, r.sequence,
                           r.docs, r.plan>>, NotEmpty)
    IN  IF all # <<>> THEN Concat(all) ELSE EmptyTable

---------------------------------------------------------------------------
(* The process_* method of each stage: the steps of its try block, its
   except clause and its finally clause *)

Stages == {"staging", "funnel", "churn", "inconsistencies"}

(* the calls of the try block, in order *)
Steps(s) ==
    CASE s = "staging" ->
           <<"load_data", "validate_and_cast_schema", "fill_missing_values",
             "create_staging_table", "export_to_csv">>
      [] s = "funnel" ->
           <<"load_staging_data", "prepare_database", "create_funnel_analysis",
             "export_to_csv", "analyze_funnel_metrics">>
      [] s = "churn" ->
           <<"load_staging_data", "prepare_database", "create_churn_analysis",
             "export_to_csv">>
      [] s = "inconsistencies" ->
           <<"load_staging_data", "prepare_database", "create_inconsistencies_summary",
             "export_to_csv", "export_client_details", "analyze_event_type_distribution">>

(* the steps that begin with self.conn = sqlite3.connect(':memory:') *)
Opens(name) == name \in {"create_staging_table", "prepare_database"}

(* Finally with the close in the try block, after the last step *)
FinallyAsOnReturnOnly(c, st) == IF c = "open" /\ st = "finally_return" THEN "closed" ELSE c

(* finally: if self.conn: self.conn.close() *)
Finally(c, st) == IF c = "open" THEN "closed" ELSE c

(* no process_* method has been called: self.conn = None in each processor *)
NoCall ==
    /\ stage = "idle"
    /\ step = 0
    /\ status = "idle"
    /\ conn = [s \in Stages |-> "none"]
    /\ exits = [s \in Stages |-> "none"]
    /\ ran = [s \in Stages |-> <<>>]
    /\ exc = [s \in Stages |-> "none"]
    /\ reraised = [s \in Stages |-> "none"]

(* a process_* method is called on a new processor *)
process_call ==
    /\ status = "idle"
    /\ \E s \in Stages :
          /\ exits[s] = "none"
          /\ stage' = s
    /\ step' = 1
    /\ status' = "try"
    /\ UNCHANGED <<conn, exits, ran, exc, reraised>>
    /\ UNCHANGED datavars

(* the next call of the try block runs to its end *)
step_completes ==
    /\ status = "try"
    /\ step <= Len(Steps(stage))
    /\ ran' = [ran EXCEPT ![stage] = Append(@, Steps(stage)[step])]
    /\ conn' = [conn EXCEPT ![stage] = IF Opens(Steps(stage)[step]) THEN "open" ELSE @]
    /\ step' = step + 1
    /\ UNCHANGED <<stage, status, exits, exc, reraised>>
    /\ UNCHANGED datavars

(* the next call of the try block raises (the exception is named after the
   step); a step that opens the connection raises before or after
   sqlite3.connect has returned *)
step_raises ==
    /\ status = "try"
    /\ step <= Len(Steps(stage))
    /\ ran' = [ran EXCEPT ![stage] = Append(@, Steps(stage)[step])]
    /\ \E connected \in BOOLEAN :
          conn' = [conn EXCEPT ![stage] =
                      IF Opens(Steps(stage)[step]) /\ connected THEN "open" ELSE @]
    /\ exc' = [exc EXCEPT ![stage] = Steps(stage)[step]]
    /\ status' = "except"
    /\ UNCHANGED <<stage, step, exits, reraised>>
    /\ UNCHANGED datavars

(* the return statement that ends the try block *)
return_statement ==
    /\ status = "try"
    /\ step > Len(Steps(stage))
    /\ status' = "finally_return"
    /\ UNCHANGED <<stage, step, conn, exits, ran, exc, reraised>>
    /\ UNCHANGED datavars

(* except_clause that logs the exception and does not raise it again *)
except_clauseAsSwallow ==
    /\ status = "except"
    /\ status' = "finally_return"
    /\ UNCHANGED <<stage, step, conn, exits, ran, exc, reraised>>
    /\ UNCHANGED datavars

(* except Exception as e: print(...); raise *)
except_clause ==
    /\ status = "except"
    /\ status' = "finally_raise"
    /\ UNCHANGED <<stage, step, conn, exits, ran, exc, reraised>>
    /\ UNCHANGED datavars

(* the finally clause, after which the method returns or the exception goes
   on to the caller *)
finally_clause ==
    /\ status \in {"finally_return", "finally_raise"}
    /\ conn' = [conn EXCEPT ![stage] = Finally(@, status)]
    /\ exits' = [exits EXCEPT ![stage] =
                    IF status = "finally_return" THEN "returned" ELSE "raised"]
    /\ stage' = "idle"
    /\ step' = 0
    /\ status' = "idle"
    /\ reraised' = [reraised EXCEPT ![stage] =
                       IF status = "finally_raise" THEN exc[stage] ELSE "none"]
    /\ UNCHANGED <<ran, exc>>
    /\ UNCHANGED datavars

---------------------------------------------------------------------------
(* The input file and the pipeline run *)

(* rows of the input CSV: a cell is a value, blank ("" in a text column) or
   text that does not parse (BAD) *)
CompleteRows ==
    [record_id         : {1},
     client_id         : Clients \cup {BAD},
     event_type        : KnownTypes,
     event_date        : Dates \cup {BAD},
     plan              : {"basic"},
     region            : {"eu"},
     marketing_channel : {"web"},
     sales_rep_id      : {7},
     source_system     : {"crm"}]

(* rows of an event type outside the funnel *)
OtherTypeRows ==
    [record_id         : {1},
     client_id         : Clients,
     event_type        : EventTypes \ KnownTypes,
     event_date        : {1},
     plan              : {"basic"},
     region            : {"eu"},
     marketing_channel : {"web"},
     sales_rep_id      : {7},
     source_system     : {"crm"}]

(* rows whose plan cell is blank *)
BlankPlanRows ==
    [record_id         : {1},
     client_id         : {1},
     event_type        : {"applied"},
     event_date        : Dates,
     plan              : {""},
     region            : {"eu"},
     marketing_channel : {"web"},
     sales_rep_id      : {7},
     source_system     : {"crm"}]

InputRows == CompleteRows \cup OtherTypeRows \cup BlankPlanRows

InputTables == UNION {[1..n -> InputRows] : n \in 0..MaxRows}

(* julianday('now') at the time a query runs, in days on the scale of Dates:
   the day on which date 1 is 61 days back, and the day after *)
Nows == {InactiveDays + 2, InactiveDays + 3}

NoResults == [done |-> {}]

Init ==
    /\ pc = "start"
    /\ raw \in InputTables
    /\ df = <<>>
    /\ staging_df = EmptyTable
    /\ funnel_df = EmptyTable
    /\ metrics = NoMetrics
    /\ churn_df = EmptyTable
    /\ results = NoResults
    /\ findings = EmptyTable
    /\ NoCall

(* pd.read_csv(input_csv_path) *)
load_data ==
    /\ pc = "start"
    /\ df' = [i \in DOMAIN raw |-> ReadCsvRow(raw[i])]
    /\ pc' = "loaded"
    /\ UNCHANGED <<raw, staging_df, funnel_df, metrics, churn_df, results, findings>>
    /\ UNCHANGED procvars

validate_and_cast_schema ==
    /\ pc = "loaded"
    /\ df' = [i \in DOMAIN df |-> CastRow(df[i])]
    /\ pc' = "cast"
    /\ UNCHANGED <<raw, staging_df, funnel_df, metrics, churn_df, results, findings>>
    /\ UNCHANGED procvars

fill_missing_values ==
    /\ pc = "cast"
    /\ df' = [i \in DOMAIN df |-> FillRow(df[i])]
    /\ pc' = "filled"
    /\ UNCHANGED <<raw, staging_df, funnel_df, metrics, churn_df, results, findings>>
    /\ UNCHANGED procvars

create_staging_table ==
    /\ pc = "filled"
    /\ \E tb \in Permutations(1..Len(df)) :
          staging_df' = StagingQuery(df, tb)
    /\ pc' = "staged"
    /\ UNCHANGED <<raw, df, funnel_df, metrics, churn_df, results, findings>>
    /\ UNCHANGED procvars

create_funnel_analysis ==
    /\ pc = "staged"
    /\ funnel_df' = FunnelQuery(load_staging_data)
    /\ pc' = "funnel"
    /\ UNCHANGED <<raw, df, staging_df, metrics, churn_df, results, findings>>
    /\ UNCHANGED procvars

analyze_funnel_metrics ==
    /\ pc = "funnel"
    /\ metrics' = FunnelMetrics(funnel_df.rows)
    /\ pc' = "metrics"
    /\ UNCHANGED <<raw, df, staging_df, funnel_df, churn_df, results, findings>>
    /\ UNCHANGED procvars

create_churn_analysis ==
    /\ pc = "metrics"
    /\ \E now \in Nows : churn_df' = ChurnQuery(load_staging_data, now)
    /\ pc' = "churn"
    /\ UNCHANGED <<raw, df, staging_df, funnel_df, metrics, results, findings>>
    /\ UNCHANGED procvars

create_inconsistencies_summary ==
    /\ pc = "churn"
    /\ \E now \in Nows :
          \/ /\ ~MultipleAppsRaises(load_staging_data)
             /\ results' = AllResults(load_staging_data, now)
             /\ findings' = Combine(results')
             /\ pc' = "done"
          \/ /\ MultipleAppsRaises(load_staging_data)
             /\ results' = ResultsBeforeQ1(load_staging_data, now)
             /\ findings' = findings
             /\ pc' = "error"
    /\ UNCHANGED <<raw, df, staging_df, funnel_df, metrics, churn_df>>
    /\ UNCHANGED procvars

Next ==
    \/ load_data
    \/ validate_and_cast_schema
    \/ fill_missing_values
    \/ create_staging_table
    \/ create_funnel_analysis
    \/ analyze_funnel_metrics
    \/ create_churn_analysis
    \/ create_inconsistencies_summary

Spec == Init /\ [][Next]_vars

---------------------------------------------------------------------------
(* The four process_* methods called one after the other, each step free to
   complete or to raise *)

InitProcess ==
    /\ pc = "start"
    /\ raw = <<>>
    /\ df = <<>>
    /\ staging_df = EmptyTable
    /\ funnel_df = EmptyTable
    /\ metrics = NoMetrics
    /\ churn_df = EmptyTable
    /\ results = NoResults
    /\ findings = EmptyTable
    /\ NoCall

NextProcess ==
    \/ process_call
    \/ step_completes
    \/ step_raises
    \/ return_statement
    \/ except_clause
    \/ finally_clause

SpecProcess == InitProcess /\ [][NextProcess]_vars

---------------------------------------------------------------------------
(* analyze_funnel_metrics on any funnel table: one record per client, each of
   the five dates present or missing *)

FunnelDates == [FunnelColumns \ {"client_id"} -> {NULL, 1}]

FunnelInputRow(c, d) ==
    [col \in FunnelColumns |-> IF col = "client_id" THEN c ELSE d[col]]

FunnelInputTables ==
    UNION {{[i \in 1..n |-> FunnelInputRow(i, ds[i])] : ds \in [1..n -> FunnelDates]} :
              n \in 0..MaxFunnelRows}

InitMetrics ==
    /\ pc = "funnel"
    /\ raw = <<>>
    /\ df = <<>>
    /\ staging_df = EmptyTable
    /\ funnel_df \in {Table(FunnelColumns, t) : t \in FunnelInputTables}
    /\ metrics = NoMetrics
    /\ churn_df = EmptyTable
    /\ results = NoResults
    /\ findings = EmptyTable
    /\ NoCall

NextMetrics == analyze_funnel_metrics

SpecMetrics == InitMetrics /\ [][NextMetrics]_vars

---------------------------------------------------------------------------
(* The staging stage on inputs with missing and malformed cells in every
   column the normalizer touches, followed by the unknown-values rule-check *)

NormaliseRows ==
    [record_id         : {1},
     client_id         : {1},
     event_type        : {"applied"},
     event_date        : {1, BAD},
     plan              : {"basic", "PRO", ""},
     region            : {"eu", ""},
     marketing_channel : {"web", ""},
     sales_rep_id      : {7, NULL, BAD, Fraction + 7},
     source_system     : {"crm", ""}]

NormaliseTables == UNION {[1..n -> NormaliseRows] : n \in 0..MaxNormRows}

InitNormalise ==
    /\ pc = "start"
    /\ raw \in NormaliseTables
    /\ df = <<>>
    /\ staging_df = EmptyTable
    /\ funnel_df = EmptyTable
    /\ metrics = NoMetrics
    /\ churn_df = EmptyTable
    /\ results = NoResults
    /\ findings = EmptyTable
    /\ NoCall

(* result = self.analyze_...(): the result kept under the check's name *)
WithResult(r, name, val) ==
    [n \in DOMAIN r \cup {name} |-> IF n = name THEN val ELSE r[n]]

(* InconsistenciesProcessor.analyze_unknown_values called on the staged file *)
unknown_values_check ==
    /\ pc \in {"staged", "checked"}
    /\ results' = WithResult(results, "unknown", analyze_unknown_values(load_staging_data))
    /\ pc' = "checked"
    /\ UNCHANGED <<raw, df, staging_df, funnel_df, metrics, churn_df, findings>>
    /\ UNCHANGED procvars

NextNormalise ==
    \/ load_data
    \/ validate_and_cast_schema
    \/ fill_missing_values
    \/ create_staging_table
    \/ unknown_values_check

SpecNormalise == InitNormalise /\ [][NextNormalise]_vars

---------------------------------------------------------------------------
(* The rule-checks of the Inconsistency Analyzer run one by one on a staged
   table, in any order and any number of times *)

(* the tie order ROW_NUMBER gets when equal dates stay in input order *)
InputOrder(n) == [i \in 1..n |-> i]

churned_without_signed_check ==
    /\ pc \in {"staged", "checked"}
    /\ results' = WithResult(results, "q3", analyze_churned_without_signed(load_staging_data))
    /\ pc' = "checked"
    /\ UNCHANGED <<raw, df, staging_df, funnel_df, metrics, churn_df, findings>>
    /\ UNCHANGED procvars

long_inactive_unsigned_check ==
    /\ pc \in {"staged", "checked"}
    /\ \E now \in Nows :
          results' = WithResult(results, "q6",
                                analyze_long_inactive_unsigned(load_staging_data, now))
    /\ pc' = "checked"
    /\ UNCHANGED <<raw, df, staging_df, funnel_df, metrics, churn_df, findings>>
    /\ UNCHANGED procvars

signed_without_applied_check ==
    /\ pc \in {"staged", "checked"}
    /\ results' = WithResult(results, "q2", analyze_signed_without_applied(load_staging_data))
    /\ pc' = "checked"
    /\ UNCHANGED <<raw, df, staging_df, funnel_df, metrics, churn_df, findings>>
    /\ UNCHANGED procvars

multiple_applications_check ==
    /\ pc \in {"staged", "checked"}
    /\ IF MultipleAppsRaises(load_staging_data)
       THEN pc' = "error" /\ results' = results
       ELSE /\ pc' = "checked"
            /\ results' = WithResult(results, "q1",
                                     analyze_multiple_applications(load_staging_data))
    /\ UNCHANGED <<raw, df, staging_df, funnel_df, metrics, churn_df, findings>>
    /\ UNCHANGED procvars

event_sequence_violations_check ==
    /\ pc \in {"staged", "checked"}
    /\ results' = WithResult(results, "sequence",
                             analyze_event_sequence_violations(load_staging_data))
    /\ pc' = "checked"
    /\ UNCHANGED <<raw, df, staging_df, funnel_df, metrics, churn_df, findings>>
    /\ UNCHANGED procvars

(* event_type_distribution_check that also empties the staged table *)
event_type_distribution_checkAsDropsRows ==
    /\ pc \in {"staged", "checked"}
    /\ results' = WithResult(results, "distribution",
                             analyze_event_type_distribution(load_staging_data))
    /\ staging_df' = Table(StagingColumns, <<>>)
    /\ pc' = "checked"
    /\ UNCHANGED <<raw, df, funnel_df, metrics, churn_df, findings>>
    /\ UNCHANGED procvars

event_type_distribution_check ==
    /\ pc \in {"staged", "checked"}
    /\ results' = WithResult(results, "distribution",
                             analyze_event_type_distribution(load_staging_data))
    /\ pc' = "checked"
    /\ UNCHANGED <<raw, df, staging_df, funnel_df, metrics, churn_df, findings>>
    /\ UNCHANGED procvars

docs_submitted_pattern_check ==
    /\ pc \in {"staged", "checked"}
    /\ results' = WithResult(results, "docs",
                             analyze_docs_submitted_pattern(load_staging_data))
    /\ pc' = "checked"
    /\ UNCHANGED <<raw, df, staging_df, funnel_df, metrics, churn_df, findings>>
    /\ UNCHANGED procvars

plan_inconsistencies_check ==
    /\ pc \in {"staged", "checked"}
    /\ results' = WithResult(results, "plan",
                             analyze_plan_inconsistencies(load_staging_data))
    /\ pc' = "checked"
    /\ UNCHANGED <<raw, df, staging_df, funnel_df, metrics, churn_df, findings>>
    /\ UNCHANGED procvars

(* normalised events of client 1 of one plan with either type and date *)
CheckRows ==
    [record_id         : {1},
     client_id         : {1},
     event_type        : {"applied", "signed"},
     event_date        : Dates,
     plan              : {"Basic"},
     region            : {"eu"},
     marketing_channel : {"web"},
     sales_rep_id      : {7},
     source_system     : {"crm"}]

CheckTables == UNION {[1..n -> CheckRows] : n \in 0..MaxCheckRows}

InitChecks ==
    /\ pc = "staged"
    /\ raw = <<>>
    /\ df \in CheckTables
    /\ staging_df = StagingQuery(df, InputOrder(Len(df)))
    /\ funnel_df = EmptyTable
    /\ metrics = NoMetrics
    /\ churn_df = EmptyTable
    /\ results = NoResults
    /\ findings = EmptyTable
    /\ NoCall

NextChecks ==
    \/ churned_without_signed_check
    \/ long_inactive_unsigned_check
    \/ signed_without_applied_check
    \/ multiple_applications_check
    \/ unknown_values_check
    \/ event_sequence_violations_check
    \/ event_type_distribution_check
    \/ docs_submitted_pattern_check
    \/ plan_inconsistencies_check

SpecChecks == InitChecks /\ [][NextChecks]_vars

---------------------------------------------------------------------------
(* analyze_event_sequence_violations and analyze_docs_submitted_pattern on
   staged tables of up to MaxRuleRows events *)

(* normalised events: client 1 with every known type on either date, client 2
   with a signed event on day 1 or an applied event on day 2 *)
RuleRows ==
    [record_id         : {1},
     client_id         : {1},
     event_type        : KnownTypes,
     event_date        : Dates,
     plan              : {"Basic"},
     region            : {"eu"},
     marketing_channel : {"web"},
     sales_rep_id      : {7},
     source_system     : {"crm"}]
    \cup
    {[record_id |-> 1, client_id |-> 2, event_type |-> e[1], event_date |-> e[2],
      plan |-> "Basic", region |-> "eu", marketing_channel |-> "web",
      sales_rep_id |-> 7, source_system |-> "crm"] :
        e \in {<<"signed", 1>>, <<"applied", 2>>}}

RuleTables == UNION {[1..n -> RuleRows] : n \in 0..MaxRuleRows}

InitRules ==
    /\ pc = "staged"
    /\ raw = <<>>
    /\ df \in RuleTables
    /\ staging_df = StagingQuery(df, InputOrder(Len(df)))
    /\ funnel_df = EmptyTable
    /\ metrics = NoMetrics
    /\ churn_df = EmptyTable
    /\ results = NoResults
    /\ findings = EmptyTable
    /\ NoCall

NextRules ==
    \/ event_sequence_violations_check
    \/ docs_submitted_pattern_check

SpecRules == InitRules /\ [][NextRules]_vars

---------------------------------------------------------------------------
(* Properties of the staged table *)

Staged == pc \in {"staged", "funnel", "metrics", "churn", "done", "error"}

PartitionOf(t, i) == {j \in DOMAIN t : SamePartition(t[j], t[i])}

(* C1: in the staged table, the event_rank values of the N rows of every
   (client_id, event_type) partition are exactly the integers 1..N, each
   used once *)
C1_RankIsPermutation ==
    pc = "staged" =>
        LET t == staging_df.rows
        IN  \A i \in DOMAIN t :
               LET part == PartitionOf(t, i)
               IN  /\ {t[j].event_rank : j \in part} = 1..Cardinality(part)
                   /\ \A j, k \in part : j # k => t[j].event_rank # t[k].event_rank

(* a staged partition holds two rows of the same date *)
C1_Witness ==
    /\ pc = "staged"
    /\ \E i, j \in DOMAIN staging_df.rows :
          /\ i # j
          /\ SamePartition(staging_df.rows[i], staging_df.rows[j])
          /\ staging_df.rows[i].event_date = staging_df.rows[j].event_date

(* C2: of two staged rows of one (client_id, event_type) partition, the one
   with the strictly earlier event_date has the strictly smaller event_rank,
   and the rank-1 row carries the minimum event_date of the partition *)
C2_RankFollowsDate ==
    pc = "staged" =>
        LET t == staging_df.rows
        IN  \A i \in DOMAIN t :
               /\ \A j \in PartitionOf(t, i) :
                     t[i].event_date < t[j].event_date => t[i].event_rank < t[j].event_rank
               /\ t[i].event_rank = 1 =>
                     \A j \in PartitionOf(t, i) : t[i].event_date <= t[j].event_date

(* a staged partition whose later-dated row comes first in the input *)
C2_Witness ==
    /\ pc = "staged"
    /\ \E i, j \in DOMAIN staging_df.rows :
          /\ i < j
          /\ SamePartition(staging_df.rows[i], staging_df.rows[j])
          /\ staging_df.rows[i].event_date > staging_df.rows[j].event_date

---------------------------------------------------------------------------
(* Properties of the funnel metrics *)

InUnitInterval(r) == r.den > 0 /\ 0 <= r.num /\ r.num <= r.den

IsZeroRate(r) == r.den > 0 /\ r.num = 0

RateFields == {"application_rate", "docs_submission_rate", "rejection_rate",
               "conversion_rate", "churn_rate"}

(* C3: each of the five rate fields that analyze_funnel_metrics returns lies
   in the closed interval [0, 1] *)
C3_RatesInUnitInterval ==
    pc = "metrics" => \A f \in RateFields : InUnitInterval(metrics[f])

(* C4: a rate whose denominator is 0 (total_clients for application_rate,
   applied_clients for docs_submission_rate, rejection_rate and
   conversion_rate, signed_clients for churn_rate) is 0, and is a value *)
C4_ZeroDenominatorGivesZero ==
    pc = "metrics" =>
        LET rows == funnel_df.rows
        IN  /\ \A f \in RateFields : metrics[f].den > 0
            /\ Len(rows) = 0 => IsZeroRate(metrics.application_rate)
            /\ NotNaCount(rows, "applied_date") = 0 =>
                  /\ IsZeroRate(metrics.docs_submission_rate)
                  /\ IsZeroRate(metrics.rejection_rate)
                  /\ IsZeroRate(metrics.conversion_rate)
            /\ NotNaCount(rows, "signed_date") = 0 => IsZeroRate(metrics.churn_rate)

(* metrics of a funnel table with no applied client but clients that signed,
   and no signed client but clients that churned *)
C4_Witness ==
    /\ pc = "metrics"
    /\ NotNaCount(funnel_df.rows, "applied_date") = 0
    /\ NotNaCount(funnel_df.rows, "docs_submitted_date") > 0
    /\ NotNaCount(funnel_df.rows, "signed_date") = 0
    /\ NotNaCount(funnel_df.rows, "churned_date") > 0

(* C5: active_clients equals max(signed_clients - churned_clients, 0) and is
   never negative, also when more clients churned than signed *)
C5_ActiveClientsNotNegative ==
    pc = "metrics" =>
        LET signed  == NotNaCount(funnel_df.rows, "signed_date")
            churned == NotNaCount(funnel_df.rows, "churned_date")
        IN  /\ metrics.active_clients >= 0
            /\ signed >= churned => metrics.active_clients = signed - churned
            /\ signed < churned => metrics.active_clients = 0

(* metrics of a funnel table in which more clients churned than signed *)
C5_Witness ==
    /\ pc = "metrics"
    /\ NotNaCount(funnel_df.rows, "churned_date") > NotNaCount(funnel_df.rows, "signed_date")
    /\ NotNaCount(funnel_df.rows, "signed_date") > 0

---------------------------------------------------------------------------
(* Properties of the aggregators *)

FunnelDone == pc \in {"funnel", "metrics", "churn", "done", "error"}
ChurnDone == pc \in {"churn", "done", "error"}
SummaryRan == pc \in {"done", "error"}

StagedClients == {staging_df.rows[i].client_id : i \in DOMAIN staging_df.rows}

StagedEvents(c, ty) ==
    {i \in DOMAIN staging_df.rows : /\ staging_df.rows[i].client_id = c
                                    /\ staging_df.rows[i].event_type = ty}

RowsOf(tbl, c) == {k \in DOMAIN tbl.rows : tbl.rows[k].client_id = c}

(* C6: analyze_churned_without_signed returns a finding for a client if and
   only if the staged table holds at least one churned event and no signed
   event for that client, and then exactly one *)
C6_ChurnedWithoutSigned ==
    SummaryRan =>
        /\ \A k \in DOMAIN results.q3.rows : results.q3.rows[k].client_id \in StagedClients
        /\ \A c \in StagedClients :
              Cardinality(RowsOf(results.q3, c)) =
                 IF StagedEvents(c, "churned") # {} /\ StagedEvents(c, "signed") = {}
                 THEN 1 ELSE 0

(* a client with two churned events and no signed event has its finding *)
C6_Witness ==
    /\ SummaryRan
    /\ \E k \in DOMAIN results.q3.rows : results.q3.rows[k].churned_count = 2

FindingColumns ==
    Q3Columns \cup Q6Columns \cup Q2Columns \cup Q1Columns \cup UnknownColumns
       \cup SequenceColumns \cup DocsColumns \cup PlanColumns

(* C7: on an input with headers only, the staging stage and each aggregator
   complete without raising and each returns an empty table that carries its
   full column set *)
C7_EmptyInputWellFormed ==
    raw = <<>> =>
        /\ pc # "error"
        /\ Staged => staging_df = Table(StagingColumns, <<>>)
        /\ FunnelDone => funnel_df = Table(FunnelColumns, <<>>)
        /\ ChurnDone => churn_df = Table(ChurnColumns, <<>>)
        /\ pc = "done" => findings = Table(FindingColumns, <<>>)

SameKey(a, b) ==
    a.client_id = b.client_id /\ a.inconsistency_type = b.inconsistency_type

(* C8 as stated: in the combined findings table no two rows share the same
   (client_id, inconsistency_type) pair *)
C8_FindingsKey ==
    pc = "done" =>
        \A i, j \in DOMAIN findings.rows :
           i # j => ~SameKey(findings.rows[i], findings.rows[j])

(* C8 as amended: no two rows of the combined findings table other than
   unknown_values rows share the same (client_id, inconsistency_type) pair,
   and a client has one unknown_values row for each of its flagged staged
   rows *)
C8_FindingsKeyExceptUnknown ==
    pc = "done" =>
        /\ \A i, j \in DOMAIN findings.rows :
              /\ i # j
              /\ findings.rows[i].inconsistency_type # "unknown_values"
              => ~SameKey(findings.rows[i], findings.rows[j])
        /\ \A c \in StagedClients :
              Cardinality({k \in RowsOf(findings, c) :
                              findings.rows[k].inconsistency_type = "unknown_values"})
                 = Cardinality({i \in DOMAIN staging_df.rows :
                                   /\ staging_df.rows[i].client_id = c
                                   /\ staging_df.rows[i].plan = "Unknown"})

(* a client with two unknown_values rows and a finding of another rule *)
C8_Witness ==
    /\ pc = "done"
    /\ \E i, j, k \in DOMAIN findings.rows :
          /\ i # j
          /\ findings.rows[i].inconsistency_type = "unknown_values"
          /\ SameKey(findings.rows[i], findings.rows[j])
          /\ findings.rows[k].client_id = findings.rows[i].client_id
          /\ findings.rows[k].inconsistency_type # "unknown_values"

(* C9: the churn table holds exactly one row for each distinct client_id of
   the staged table *)
C9_OneChurnRowPerClient ==
    pc = "churn" =>
        /\ \A k \in DOMAIN churn_df.rows : churn_df.rows[k].client_id \in StagedClients
        /\ \A c \in StagedClients : Cardinality(RowsOf(churn_df, c)) = 1

DateColumn(ty) ==
    CASE ty = "applied"        -> "applied_date"
      [] ty = "docs_submitted" -> "docs_submitted_date"
      [] ty = "rejected"       -> "rejected_date"
      [] ty = "signed"         -> "signed_date"
      [] ty = "churned"        -> "churned_date"

EarliestStaged(c, ty) ==
    Min({staging_df.rows[i].event_date : i \in StagedEvents(c, ty)})

(* the funnel query with the WHERE event_rank = 1 clause left out *)
FunnelOverAllRows(t) ==
    LET keys == GroupKeys(t)
    IN  Table(FunnelColumns, [k \in DOMAIN keys |-> FunnelRow(t, keys[k])])

(* C10: for every client and each of the five known event types the funnel
   record's date is the earliest event_date among all the client's staged
   events of that type, NULL when there is none; the funnel table is the one
   that MIN over all rows, without the event_rank = 1 restriction, gives *)
C10_FunnelDateIsEarliest ==
    pc = "funnel" =>
        /\ \A c \in StagedClients : RowsOf(funnel_df, c) # {}
        /\ \A k \in DOMAIN funnel_df.rows : \A ty \in KnownTypes :
              funnel_df.rows[k][DateColumn(ty)]
                 = EarliestStaged(funnel_df.rows[k].client_id, ty)
        /\ funnel_df = FunnelOverAllRows(load_staging_data)

(* a funnel record of a client with two events of one known type, the later
   one first in the input *)
C10_Witness ==
    /\ pc = "funnel"
    /\ \E i, j \in DOMAIN staging_df.rows :
          /\ i < j
          /\ SamePartition(staging_df.rows[i], staging_df.rows[j])
          /\ staging_df.rows[i].event_type \in KnownTypes
          /\ staging_df.rows[i].event_date > staging_df.rows[j].event_date
    /\ funnel_df.rows # <<>>

---------------------------------------------------------------------------
(* Properties of the funnel table *)

OnlyUnknownTypes(c) ==
    \A i \in DOMAIN staging_df.rows :
       staging_df.rows[i].client_id = c => staging_df.rows[i].event_type \notin KnownTypes

AllDatesNull(r) == \A ty \in KnownTypes : r[DateColumn(ty)] = NULL

(* C11: the funnel table holds exactly one record for each distinct client_id
   of the staged table, also for a client whose events are all of unknown
   types; that record has its five dates null and counts in total_clients *)
C11_OneFunnelRecordPerClient ==
    /\ pc \in {"funnel", "metrics"} =>
          /\ \A k \in DOMAIN funnel_df.rows : funnel_df.rows[k].client_id \in StagedClients
          /\ \A c \in StagedClients : Cardinality(RowsOf(funnel_df, c)) = 1
          /\ \A k \in DOMAIN funnel_df.rows :
                OnlyUnknownTypes(funnel_df.rows[k].client_id) => AllDatesNull(funnel_df.rows[k])
    /\ pc = "metrics" => metrics.total_clients = Cardinality(StagedClients)

(* the metrics of a funnel table of two clients, one of which has only an
   event of an unknown type *)
C11_Witness ==
    /\ pc = "metrics"
    /\ Cardinality(StagedClients) = 2
    /\ \E c \in StagedClients : OnlyUnknownTypes(c)
    /\ metrics.total_clients = 2

---------------------------------------------------------------------------
(* Properties of the staging stage *)

(* the input rows whose event_date cell holds a date *)
DatedInput == {i \in DOMAIN raw : raw[i].event_date \notin {BAD, NULL}}

Unranked(r) == [c \in RawColumns |-> r[c]]

StagedCopies(r) ==
    Cardinality({k \in DOMAIN staging_df.rows : Unranked(staging_df.rows[k]) = r})

(* C12: the staged table holds exactly the input rows whose event_date parsed
   to a date, each as often as the input holds it: no staged row has a null
   event_date, and no dated row is removed or merged with a duplicate *)
C12_StagedRowsAreDatedRows ==
    pc = "staged" =>
        /\ \A k \in DOMAIN staging_df.rows : staging_df.rows[k].event_date # NULL
        /\ Len(staging_df.rows) = Cardinality(DatedInput)
        /\ \A i \in DatedInput :
              StagedCopies(df[i]) = Cardinality({j \in DatedInput : df[j] = df[i]})

(* an input of a row whose date does not parse and a row whose date does *)
C12_Witness ==
    /\ pc = "staged"
    /\ \E i, j \in DOMAIN raw : raw[i].event_date = BAD /\ j \in DatedInput
    /\ Len(staging_df.rows) = 1

---------------------------------------------------------------------------
(* Properties of the normalizer *)

(* the cell of the input file is blank or one of the NA strings *)
WasMissing(v) == v \in NaStrings

(* the title-case forms of the plan strings of the model *)
IsTitleCase(s) == s \in {"Unknown", "Basic", "Pro"}

(* C13: after fill_missing_values every row's plan is non-null and in title
   case, and a row whose plan was missing has the plan 'Unknown' *)
C13_PlanFilledAndTitled ==
    pc = "filled" =>
        \A i \in DOMAIN df :
           /\ df[i].plan # NULLS
           /\ IsTitleCase(df[i].plan)
           /\ WasMissing(raw[i].plan) => df[i].plan = "Unknown"

(* a filled row whose plan was blank in the input *)
C13_Witness ==
    /\ pc = "filled"
    /\ \E i \in DOMAIN df : WasMissing(raw[i].plan) /\ df[i].plan = "Unknown"

(* the cell is a whole number *)
IsInteger(v) == v # NULL /\ v # BAD /\ v < Fraction

(* C14: after validate_and_cast_schema and fill_missing_values every row's
   sales_rep_id is an integer: -1 when the cell was blank or did not parse as
   a number, the value of the cell otherwise *)
C14_SalesRepIsInteger ==
    pc = "filled" =>
        \A i \in DOMAIN df :
           /\ IsInteger(df[i].sales_rep_id)
           /\ raw[i].sales_rep_id \in {NULL, BAD} => df[i].sales_rep_id = SalesRepSentinel
           /\ raw[i].sales_rep_id \notin {NULL, BAD} => df[i].sales_rep_id = raw[i].sales_rep_id

(* C15: after fill_missing_values every row's source_system and
   marketing_channel are non-null: 'unknown' when the cell was missing, the
   value of the cell otherwise *)
C15_SourceAndChannelFilled ==
    pc = "filled" =>
        \A i \in DOMAIN df : \A col \in {"source_system", "marketing_channel"} :
           /\ df[i][col] # NULLS
           /\ WasMissing(raw[i][col]) => df[i][col] = "unknown"
           /\ ~WasMissing(raw[i][col]) => df[i][col] = raw[i][col]

(* a filled row whose source_system was blank and whose marketing_channel was
   given in the input *)
C15_Witness ==
    /\ pc = "filled"
    /\ \E i \in DOMAIN df :
          /\ WasMissing(raw[i].source_system) /\ df[i].source_system = "unknown"
          /\ ~WasMissing(raw[i].marketing_channel) /\ df[i].marketing_channel = "web"

---------------------------------------------------------------------------
(* Properties of the rule-checks *)

(* C17: analyze_signed_without_applied returns a finding for a client if and
   only if the staged table holds at least one signed event and no applied
   event for that client; the finding has applied_count 0 and the client's
   number of signed events as signed_count *)
C17_SignedWithoutApplied ==
    SummaryRan =>
        /\ \A k \in DOMAIN results.q2.rows :
              LET r == results.q2.rows[k]
              IN  /\ r.client_id \in StagedClients
                  /\ r.applied_count = 0
                  /\ r.signed_count = Cardinality(StagedEvents(r.client_id, "signed"))
        /\ \A c \in StagedClients :
              Cardinality(RowsOf(results.q2, c)) =
                 IF StagedEvents(c, "signed") # {} /\ StagedEvents(c, "applied") = {}
                 THEN 1 ELSE 0

(* a client with a signed event and no applied event has its finding, beside
   a client that applied *)
C17_Witness ==
    /\ SummaryRan
    /\ \E k \in DOMAIN results.q2.rows : results.q2.rows[k].signed_count >= 1
    /\ \E c \in StagedClients : StagedEvents(c, "applied") # {}

AppliedDates(c) == {staging_df.rows[i].event_date : i \in StagedEvents(c, "applied")}

(* C18: analyze_multiple_applications returns a finding for a client if and
   only if the staged table holds more than one applied event for that
   client; application_count is the client's number of applied events and
   date_range_days the number of days from its earliest to its latest
   applied date *)
C18_MultipleApplications ==
    SummaryRan =>
        /\ pc # "error"
        /\ \A k \in DOMAIN results.q1.rows :
              LET r == results.q1.rows[k]
              IN  /\ r.client_id \in StagedClients
                  /\ r.application_count = Cardinality(StagedEvents(r.client_id, "applied"))
                  /\ r.date_range_days = Max(AppliedDates(r.client_id)) - Min(AppliedDates(r.client_id))
        /\ \A c \in StagedClients :
              Cardinality(RowsOf(results.q1, c)) =
                 IF Cardinality(StagedEvents(c, "applied")) > 1 THEN 1 ELSE 0

(* a staged row that the unknown-values rule is to flag *)
HasUnknownValue(r) ==
    \/ r.plan = "Unknown"
    \/ r.sales_rep_id = -1
    \/ \E col \in {"region", "marketing_channel", "source_system"} : r[col] \in {NULLS, ""}

FlaggedRows == {k \in DOMAIN staging_df.rows : HasUnknownValue(staging_df.rows[k])}

(* the finding reports the staged row r *)
FindingOf(f, r) ==
    /\ f.inconsistency_type = "unknown_values"
    /\ \A col \in UnknownColumns \cap RawColumns : f[col] = r[col]

(* C19: analyze_unknown_values returns one finding per staged row, for
   exactly the staged rows whose plan is 'Unknown', whose sales_rep_id is -1
   or whose region, marketing_channel or source_system is null or empty; a
   dated row whose sales_rep_id was blank in the input is staged with -1 and
   is flagged *)
C19_UnknownValuesPerRow ==
    pc = "checked" =>
        LET t == staging_df.rows
            f == results.unknown.rows
        IN  /\ Len(f) = Cardinality(FlaggedRows)
            /\ \A k \in FlaggedRows :
                  Cardinality({n \in DOMAIN f : FindingOf(f[n], t[k])})
                     = Cardinality({j \in FlaggedRows : Unranked(t[j]) = Unranked(t[k])})
            /\ \A n \in DOMAIN f : \E k \in FlaggedRows : FindingOf(f[n], t[k])
            /\ \A i \in DatedInput :
                  raw[i].sales_rep_id = NULL =>
                     \E k \in FlaggedRows : /\ Unranked(t[k]) = df[i]
                                            /\ t[k].sales_rep_id = -1

(* the finding of a staged row whose only defect is a blank sales_rep_id *)
C19_Witness ==
    /\ pc = "checked"
    /\ \E i \in DatedInput :
          /\ raw[i].sales_rep_id = NULL
          /\ raw[i].plan = "basic" /\ raw[i].region = "eu"
          /\ raw[i].marketing_channel = "web" /\ raw[i].source_system = "crm"
    /\ \E n \in DOMAIN results.unknown.rows :
          results.unknown.rows[n].description = "Sales rep ID is -1 (missing/unknown)"

---------------------------------------------------------------------------
(* Properties of the process_* methods *)

(* C20: when a stage's process_* method has been left, by its return or by
   an exception raised at any step, the connection opened during that call
   has been closed *)
C20_ConnectionClosedOnExit ==
    \A s \in Stages : exits[s] # "none" => conn[s] # "open"

(* a process_* call that opened its connection and then left by an exception *)
C20_Witness ==
    \E s \in Stages :
       /\ exits[s] = "raised"
       /\ conn[s] = "closed"
       /\ Len(ran[s]) > 2

(* the first n calls of the try block of stage s *)
FirstSteps(s, n) == SubSeq(Steps(s), 1, n)

(* C21: when a step of a stage's process_* method raises, also the load step
   on a missing input file, no later step of that stage is executed, the
   failed step is not run again, and the caller receives the exception that
   the step raised; a call returns only when no step raised *)
C21_RaiseAbortsAndPropagates ==
    \A s \in Stages :
       /\ ran[s] = FirstSteps(s, Len(ran[s]))
       /\ exc[s] # "none" => /\ ran[s] # <<>>
                             /\ ran[s][Len(ran[s])] = exc[s]
                             /\ exits[s] # "returned"
       /\ exits[s] = "raised" => exc[s] # "none" /\ reraised[s] = exc[s]
       /\ exits[s] = "returned" => /\ ran[s] = Steps(s)
                                   /\ exc[s] = "none"
                                   /\ reraised[s] = "none"

(* a call left by the exception of its load step, and a call left by the
   exception of a later step with steps still to run *)
C21_Witness ==
    /\ \E s \in Stages : exits[s] = "raised" /\ Len(ran[s]) = 1
    /\ \E s \in Stages : /\ exits[s] = "raised"
                         /\ Len(ran[s]) > 1
                         /\ Len(ran[s]) < Len(Steps(s))

---------------------------------------------------------------------------
(* Frame of the normalizer, and what it leaves for the unknown-values rule *)

(* the cell as pd.read_csv loads it: missing, or the text of the cell *)
AsLoaded(v, cell) == IF WasMissing(cell) THEN v = NULLS ELSE v = cell

(* C22: validate_and_cast_schema and fill_missing_values keep the rows of the
   loaded table, in their order and with their columns, and leave region and
   event_type of every row as loaded: a missing region stays missing *)
C22_NormalizerFrame ==
    pc \in {"cast", "filled"} =>
        /\ Len(df) = Len(raw)
        /\ \A i \in DOMAIN df :
              /\ DOMAIN df[i] = RawColumns
              /\ AsLoaded(df[i].region, raw[i].region)
              /\ AsLoaded(df[i].event_type, raw[i].event_type)

(* a filled row whose region was blank in the input, beside filled defaults *)
C22_Witness ==
    /\ pc = "filled"
    /\ \E i \in DOMAIN df :
          /\ WasMissing(raw[i].region) /\ df[i].region = NULLS
          /\ WasMissing(raw[i].plan) /\ df[i].plan = "Unknown"
          /\ WasMissing(raw[i].source_system) /\ df[i].source_system = "unknown"

(* a finding of the unknown-values rule reports the staged row k *)
IsFlagged(k) ==
    \E n \in DOMAIN results.unknown.rows :
       FindingOf(results.unknown.rows[n], staging_df.rows[k])

(* C29: no staged row has a null or empty marketing_channel or
   source_system, so analyze_unknown_values flags a staged row exactly when
   its plan is 'Unknown', its sales_rep_id is -1 or its region is missing; a
   row whose only defect in the input was a missing marketing_channel or
   source_system is not flagged *)
C29_FlaggedOnlyForPlanRepRegion ==
    /\ Staged =>
          \A k \in DOMAIN staging_df.rows :
             /\ staging_df.rows[k].marketing_channel \notin {NULLS, ""}
             /\ staging_df.rows[k].source_system \notin {NULLS, ""}
    /\ pc = "checked" =>
          /\ \A k \in DOMAIN staging_df.rows :
                IsFlagged(k) <=> \/ staging_df.rows[k].plan = "Unknown"
                                 \/ staging_df.rows[k].sales_rep_id = -1
                                 \/ staging_df.rows[k].region \in {NULLS, ""}
          /\ \A i \in DatedInput :
                /\ ~WasMissing(raw[i].plan) /\ ~WasMissing(raw[i].region)
                /\ raw[i].sales_rep_id = 7
                => \A n \in DOMAIN results.unknown.rows :
                      ~FindingOf(results.unknown.rows[n], df[i])

(* a staged row whose marketing_channel and source_system were blank in the
   input and that has no other defect: the rule returns no finding *)
C29_Witness ==
    /\ pc = "checked"
    /\ Len(staging_df.rows) = 1
    /\ WasMissing(raw[1].marketing_channel) /\ WasMissing(raw[1].source_system)
    /\ ~WasMissing(raw[1].plan) /\ ~WasMissing(raw[1].region)
    /\ raw[1].sales_rep_id = 7
    /\ results.unknown.rows = <<>>

---------------------------------------------------------------------------
(* Properties of the churn table *)

(* the staged rows of client c *)
StagedOf(c) == {i \in DOMAIN staging_df.rows : staging_df.rows[i].client_id = c}

(* the dates of the staged events of client c with type ty *)
StagedDates(c, ty) == {staging_df.rows[i].event_date : i \in StagedEvents(c, ty)}

(* the staged rows of the record's client on its last_event_date with rank 1 *)
LastRankOne(r) ==
    {i \in StagedOf(r.client_id) : /\ staging_df.rows[i].event_date = r.last_event_date
                                   /\ staging_df.rows[i].event_rank = 1}

(* C23: the last_event_type of every churn record is the event_type of a
   staged row of its client on the record's last_event_date with event_rank 1,
   and it is null exactly when the client has no such row *)
C23_LastEventTypeOfRankOneRow ==
    pc = "churn" =>
        \A k \in DOMAIN churn_df.rows :
           LET r == churn_df.rows[k]
           IN  IF LastRankOne(r) = {}
               THEN r.last_event_type = NULLS
               ELSE \E i \in LastRankOne(r) :
                       r.last_event_type = staging_df.rows[i].event_type

(* d is the latest of the dates S, or null when there is none *)
IsLatest(d, S) == IF S = {} THEN d = NULL ELSE d \in S /\ \A x \in S : x <= d

(* C24: in every churn record last_event_date is the latest event_date of the
   client's staged events, applied_date, signed_date and churned_date are the
   latest event_date of the client's events of that type, null when there is
   none, and none of the three is later than last_event_date *)
C24_ChurnDatesAreLatest ==
    pc = "churn" =>
        \A k \in DOMAIN churn_df.rows :
           LET r == churn_df.rows[k]
               c == r.client_id
           IN  /\ IsLatest(r.last_event_date,
                           {staging_df.rows[i].event_date : i \in StagedOf(c)})
               /\ r.last_event_date # NULL
               /\ \A ty \in {"applied", "signed", "churned"} :
                     /\ IsLatest(r[DateColumn(ty)], StagedDates(c, ty))
                     /\ r[DateColumn(ty)] # NULL => r[DateColumn(ty)] <= r.last_event_date

(* a client with two applied events on different dates and no signed event:
   applied_date is the later date and signed_date is null *)
C24_Witness ==
    /\ pc = "churn"
    /\ \E k \in DOMAIN churn_df.rows :
          /\ Cardinality(StagedDates(churn_df.rows[k].client_id, "applied")) = 2
          /\ churn_df.rows[k].applied_date = 2
          /\ churn_df.rows[k].signed_date = NULL

(* C25: is_churned of every churn record is 1 when the client has a staged
   churned event, which is when churned_date is not null, and 0 otherwise,
   whatever the client's other events and their order *)
C25_IsChurnedIffChurnedEvent ==
    pc = "churn" =>
        \A k \in DOMAIN churn_df.rows :
           LET r == churn_df.rows[k]
           IN  /\ r.is_churned \in {0, 1}
               /\ r.is_churned = 1 <=> StagedEvents(r.client_id, "churned") # {}
               /\ r.is_churned = 1 <=> r.churned_date # NULL

(* a churned client whose last event is a later signed one *)
C25_Witness ==
    /\ pc = "churn"
    /\ \E k \in DOMAIN churn_df.rows :
          /\ churn_df.rows[k].is_churned = 1
          /\ churn_df.rows[k].last_event_type = "signed"
          /\ churn_df.rows[k].churned_date < churn_df.rows[k].signed_date

(* C30: the funnel and churn tables of one staged table hold the same
   clients, and for a client and each of applied, signed and churned the
   funnel date is null exactly when the churn date is, is not later than the
   churn date, equals it when the client has one event of that type, and
   is_churned is 1 exactly when the funnel churned_date is not null *)
C30_FunnelAndChurnAgree ==
    pc = "churn" =>
        /\ {funnel_df.rows[j].client_id : j \in DOMAIN funnel_df.rows}
              = {churn_df.rows[k].client_id : k \in DOMAIN churn_df.rows}
        /\ \A j \in DOMAIN funnel_df.rows : \A k \in DOMAIN churn_df.rows :
              LET f == funnel_df.rows[j]
                  r == churn_df.rows[k]
              IN  f.client_id = r.client_id =>
                     /\ \A ty \in {"applied", "signed", "churned"} :
                           LET col == DateColumn(ty)
                           IN  /\ f[col] = NULL <=> r[col] = NULL
                               /\ f[col] # NULL => f[col] <= r[col]
                               /\ Cardinality(StagedEvents(f.client_id, ty)) = 1
                                     => f[col] = r[col]
                     /\ r.is_churned = 1 <=> f.churned_date # NULL

(* a client with two churned events on different dates: the funnel holds the
   first, the churn table the last, and is_churned is 1 *)
C30_Witness ==
    /\ pc = "churn"
    /\ \E j \in DOMAIN funnel_df.rows : \E k \in DOMAIN churn_df.rows :
          /\ funnel_df.rows[j].client_id = churn_df.rows[k].client_id
          /\ funnel_df.rows[j].churned_date = 1
          /\ churn_df.rows[k].churned_date = 2
          /\ churn_df.rows[k].is_churned = 1

---------------------------------------------------------------------------
(* Properties of the rule-checks run one by one *)

Ran(name) == pc = "checked" /\ name \in DOMAIN results

(* the first event of type a of client c is strictly earlier than its first
   event of type b; false when the client lacks either type *)
FirstBefore(c, a, b) ==
    \E x \in StagedDates(c, a) :
       /\ \A y \in StagedDates(c, a) : x <= y
       /\ StagedDates(c, b) # {}
       /\ \A y \in StagedDates(c, b) : x < y

(* the first of the four conditions that holds for client c, "none" if none *)
FirstCondition(c) ==
    IF FirstBefore(c, "signed", "applied") THEN "signed_before_applied"
    ELSE IF FirstBefore(c, "docs_submitted", "applied") THEN "docs_submitted_before_applied"
    ELSE IF FirstBefore(c, "rejected", "applied") THEN "rejected_before_applied"
    ELSE IF FirstBefore(c, "churned", "signed") THEN "churned_before_signed"
    ELSE "none"

(* C26: analyze_event_sequence_violations returns a finding for a client
   exactly when its first signed, docs_submitted or rejected date is strictly
   before its first applied date or its first churned date is strictly before
   its first signed date, a missing date never flagging; a flagged client has
   one finding, labelled with the first condition that holds in the order
   signed, docs_submitted, rejected, churned *)
C26_SequenceViolations ==
    Ran("sequence") =>
        /\ \A k \in DOMAIN results.sequence.rows :
              results.sequence.rows[k].client_id \in StagedClients
        /\ \A c \in StagedClients :
              /\ Cardinality(RowsOf(results.sequence, c)) =
                    IF FirstCondition(c) = "none" THEN 0 ELSE 1
              /\ \A k \in RowsOf(results.sequence, c) :
                    results.sequence.rows[k].violation_type = FirstCondition(c)

(* a client whose first signed and first docs_submitted events are both
   before its first applied event is reported once, as signed_before_applied *)
C26_Witness ==
    /\ Ran("sequence")
    /\ Len(results.sequence.rows) = 1
    /\ \E k \in DOMAIN results.sequence.rows :
          /\ FirstBefore(results.sequence.rows[k].client_id, "docs_submitted", "applied")
          /\ results.sequence.rows[k].violation_type = "signed_before_applied"

(* the description the classification gives client c *)
DocsClass(c) ==
    IF StagedEvents(c, "docs_submitted") # {} THEN "Has docs submission event"
    ELSE IF StagedEvents(c, "signed") # {} THEN "Applied and signed without docs submission"
    ELSE IF StagedEvents(c, "rejected") = {}
         THEN "Applied but no docs submission (still pending?)"
    ELSE "Other pattern"

(* C27: analyze_docs_submitted_pattern returns one finding for each client
   with a staged applied event and none for any other client; its description
   is 'Has docs submission event' when the client has a docs_submitted event,
   'Applied and signed without docs submission' when it has none but a signed
   event, 'Applied but no docs submission (still pending?)' when it has no
   docs_submitted, signed or rejected event, and 'Other pattern' otherwise *)
C27_DocsPattern ==
    Ran("docs") =>
        /\ \A k \in DOMAIN results.docs.rows :
              results.docs.rows[k].client_id \in StagedClients
        /\ \A c \in StagedClients :
              /\ Cardinality(RowsOf(results.docs, c)) =
                    IF StagedEvents(c, "applied") # {} THEN 1 ELSE 0
              /\ \A k \in RowsOf(results.docs, c) :
                    results.docs.rows[k].description = DocsClass(c)

(* a client with applied, signed and docs_submitted events is classified by
   its docs_submitted event *)
C27_Witness ==
    /\ Ran("docs")
    /\ \E k \in DOMAIN results.docs.rows :
          /\ results.docs.rows[k].signed_count = 1
          /\ results.docs.rows[k].docs_count = 1
          /\ results.docs.rows[k].description = "Has docs submission event"

(* the names of the rule-checks that have a result before and after a step *)
RanTwice == DOMAIN results \cap DOMAIN results'

(* C28 as stated: no rule-check changes the staged table, and a rule-check
   that is run again, after any other rule-checks, returns the findings it
   returned before *)
C28_ChecksRepeatable ==
    [][/\ staging_df' = staging_df
       /\ \A n \in RanTwice : results'[n] = results[n]]_vars

(* C28 as amended: no rule-check changes the staged table, and every
   rule-check other than analyze_long_inactive_unsigned, which reads the
   clock, returns the findings it returned before when it is run again *)
C28_ChecksRepeatableExceptClock ==
    [][/\ staging_df' = staging_df
       /\ \A n \in RanTwice \ {"q6"} : results'[n] = results[n]]_vars

(* every rule-check has run on a table with one applied and one signed event,
   the distribution summary has its two rows *)
C28_Witness ==
    /\ pc = "checked"
    /\ {"q3", "q6", "q2", "q1", "unknown", "sequence", "distribution", "docs", "plan"}
          \subseteq DOMAIN results
    /\ Len(results.distribution.rows) = 2
    /\ Len(results.docs.rows) = 1

===========================================================================
